---- MODULE Spec2Model ----
(***************************************************************************)
(* Model of src/app.py: the Flask view `index` that asks a text model for  *)
(* a {resource_type, name, location} block, parses it, dispatches on the   *)
(* resource type and runs one of the five Azure provisioners.              *)
(*                                                                         *)
(* A Python str is modelled as the sequence of its code points (see      *)
(* PyStr), so that str.strip(), str.lower() and the emoji prefixes of the  *)
(* result messages are what they are in the program.                       *)
(***************************************************************************)
EXTENDS Integers, Sequences, FiniteSets, TLC

(***************************************************************************)
(* Python str values                                                       *)
(* A Python str is the sequence of its Unicode code points, so that every  *)
(* character of the program's texts has a value here: "web app" is         *)
(* << 119, 101, 98, 32, 97, 112, 112 >>.  Len, SubSeq and \o are those of  *)
(* Sequences.  PyStr writes an ASCII text as a literal.                    *)
(***************************************************************************)
\* the ASCII characters 32..95 and 97..126, in the order of their codes
AsciiLow == " !\"#$%&'()*+,-./0123456789:;<=>?@ABCDEFGHIJKLMNOPQRSTUVWXYZ[\\]^_"
AsciiHigh == "abcdefghijklmnopqrstuvwxyz{|}~"

\* ord() of the one-character string c
Ord(c) ==
    CASE c = "\t" -> 9
      [] c = "\n" -> 10
      [] c = "\f" -> 12
      [] c = "\r" -> 13
      [] \E i \in 1..Len(AsciiLow) : SubSeq(AsciiLow, i, i) = c ->
            31 + (CHOOSE i \in 1..Len(AsciiLow) : SubSeq(AsciiLow, i, i) = c)
      [] \E i \in 1..Len(AsciiHigh) : SubSeq(AsciiHigh, i, i) = c ->
            96 + (CHOOSE i \in 1..Len(AsciiHigh) : SubSeq(AsciiHigh, i, i) = c)

\* Ord tabulated
AsciiCode ==
    [ c \in { "\t", "\n", "\f", "\r" }
            \cup { SubSeq(AsciiLow, i, i) : i \in 1..Len(AsciiLow) }
            \cup { SubSeq(AsciiHigh, i, i) : i \in 1..Len(AsciiHigh) } |-> Ord(c) ]

\* the Python str written as the ASCII literal s
PyStr(s) == [ i \in 1..Len(s) |-> AsciiCode[SubSeq(s, i, i)] ]

(***************************************************************************)
(* Python str operations used by index()                                   *)
(***************************************************************************)
\* the emoji that prefix every result message: U+2705 and U+274C
OkMark == << 9989 >>
FailMark == << 10060 >>

\* str.isspace() for the character of code point c: the characters of
\* bidirectional type WS, B or S or of category Zs
IsSpace(c) ==
    c \in (9..13) \cup (28..32) \cup { 133, 160, 5760 } \cup (8192..8202)
            \cup { 8232, 8233, 8239, 8287, 12288 }

RECURSIVE LStrip(_)
LStrip(s) ==
    IF Len(s) = 0 THEN s
    ELSE IF IsSpace(s[1]) THEN LStrip(SubSeq(s, 2, Len(s)))
    ELSE s

RECURSIVE RStrip(_)
RStrip(s) ==
    IF Len(s) = 0 THEN s
    ELSE IF IsSpace(s[Len(s)]) THEN RStrip(SubSeq(s, 1, Len(s) - 1))
    ELSE s

\* str.strip()
Strip(s) == RStrip(LStrip(s))

\* str.lower(), character by character: the simple lower-case mappings of
\* the Unicode character database.  An entry << lo, hi, step, delta >> says
\* that the code points lo, lo + step, ..., hi map to themselves + delta.
LowerRanges ==
    << <<65, 90, 1, 32>>, <<192, 214, 1, 32>>, <<216, 222, 1, 32>>,
       <<256, 302, 2, 1>>, <<306, 310, 2, 1>>, <<313, 327, 2, 1>>,
       <<330, 374, 2, 1>>, <<376, 376, 1, -121>>, <<377, 381, 2, 1>>,
       <<385, 385, 1, 210>>, <<386, 388, 2, 1>>, <<390, 390, 1, 206>>,
       <<391, 391, 1, 1>>, <<393, 394, 1, 205>>, <<395, 395, 1, 1>>,
       <<398, 398, 1, 79>>, <<399, 399, 1, 202>>, <<400, 400, 1, 203>>,
       <<401, 401, 1, 1>>, <<403, 403, 1, 205>>, <<404, 404, 1, 207>>,
       <<406, 406, 1, 211>>, <<407, 407, 1, 209>>, <<408, 408, 1, 1>>,
       <<412, 412, 1, 211>>, <<413, 413, 1, 213>>, <<415, 415, 1, 214>>,
       <<416, 420, 2, 1>>, <<422, 422, 1, 218>>, <<423, 423, 1, 1>>,
       <<425, 425, 1, 218>>, <<428, 428, 1, 1>>, <<430, 430, 1, 218>>,
       <<431, 431, 1, 1>>, <<433, 434, 1, 217>>, <<435, 437, 2, 1>>,
       <<439, 439, 1, 219>>, <<440, 440, 1, 1>>, <<444, 444, 1, 1>>,
       <<452, 452, 1, 2>>, <<453, 453, 1, 1>>, <<455, 455, 1, 2>>,
       <<456, 456, 1, 1>>, <<458, 458, 1, 2>>, <<459, 475, 2, 1>>,
       <<478, 494, 2, 1>>, <<497, 497, 1, 2>>, <<498, 500, 2, 1>>,
       <<502, 502, 1, -97>>, <<503, 503, 1, -56>>, <<504, 542, 2, 1>>,
       <<544, 544, 1, -130>>, <<546, 562, 2, 1>>, <<570, 570, 1, 10795>>,
       <<571, 571, 1, 1>>, <<573, 573, 1, -163>>, <<574, 574, 1, 10792>>,
       <<577, 577, 1, 1>>, <<579, 579, 1, -195>>, <<580, 580, 1, 69>>,
       <<581, 581, 1, 71>>, <<582, 590, 2, 1>>, <<880, 882, 2, 1>>,
       <<886, 886, 1, 1>>, <<895, 895, 1, 116>>, <<902, 902, 1, 38>>,
       <<904, 906, 1, 37>>, <<908, 908, 1, 64>>, <<910, 911, 1, 63>>,
       <<913, 929, 1, 32>>, <<931, 939, 1, 32>>, <<975, 975, 1, 8>>,
       <<984, 1006, 2, 1>>, <<1012, 1012, 1, -60>>, <<1015, 1015, 1, 1>>,
       <<1017, 1017, 1, -7>>, <<1018, 1018, 1, 1>>, <<1021, 1023, 1, -130>>,
       <<1024, 1039, 1, 80>>, <<1040, 1071, 1, 32>>, <<1120, 1152, 2, 1>>,
       <<1162, 1214, 2, 1>>, <<1216, 1216, 1, 15>>, <<1217, 1229, 2, 1>>,
       <<1232, 1326, 2, 1>>, <<1329, 1366, 1, 48>>, <<4256, 4293, 1, 7264>>,
       <<4295, 4295, 1, 7264>>, <<4301, 4301, 1, 7264>>,
       <<5024, 5103, 1, 38864>>, <<5104, 5109, 1, 8>>,
       <<7312, 7354, 1, -3008>>, <<7357, 7359, 1, -3008>>,
       <<7680, 7828, 2, 1>>, <<7838, 7838, 1, -7615>>, <<7840, 7934, 2, 1>>,
       <<7944, 7951, 1, -8>>, <<7960, 7965, 1, -8>>, <<7976, 7983, 1, -8>>,
       <<7992, 7999, 1, -8>>, <<8008, 8013, 1, -8>>, <<8025, 8031, 2, -8>>,
       <<8040, 8047, 1, -8>>, <<8072, 8079, 1, -8>>, <<8088, 8095, 1, -8>>,
       <<8104, 8111, 1, -8>>, <<8120, 8121, 1, -8>>, <<8122, 8123, 1, -74>>,
       <<8124, 8124, 1, -9>>, <<8136, 8139, 1, -86>>, <<8140, 8140, 1, -9>>,
       <<8152, 8153, 1, -8>>, <<8154, 8155, 1, -100>>, <<8168, 8169, 1, -8>>,
       <<8170, 8171, 1, -112>>, <<8172, 8172, 1, -7>>,
       <<8184, 8185, 1, -128>>, <<8186, 8187, 1, -126>>,
       <<8188, 8188, 1, -9>>, <<8486, 8486, 1, -7517>>,
       <<8490, 8490, 1, -8383>>, <<8491, 8491, 1, -8262>>,
       <<8498, 8498, 1, 28>>, <<8544, 8559, 1, 16>>, <<8579, 8579, 1, 1>>,
       <<9398, 9423, 1, 26>>, <<11264, 11311, 1, 48>>,
       <<11360, 11360, 1, 1>>, <<11362, 11362, 1, -10743>>,
       <<11363, 11363, 1, -3814>>, <<11364, 11364, 1, -10727>>,
       <<11367, 11371, 2, 1>>, <<11373, 11373, 1, -10780>>,
       <<11374, 11374, 1, -10749>>, <<11375, 11375, 1, -10783>>,
       <<11376, 11376, 1, -10782>>, <<11378, 11378, 1, 1>>,
       <<11381, 11381, 1, 1>>, <<11390, 11391, 1, -10815>>,
       <<11392, 11490, 2, 1>>, <<11499, 11501, 2, 1>>,
       <<11506, 11506, 1, 1>>, <<42560, 42604, 2, 1>>,
       <<42624, 42650, 2, 1>>, <<42786, 42798, 2, 1>>,
       <<42802, 42862, 2, 1>>, <<42873, 42875, 2, 1>>,
       <<42877, 42877, 1, -35332>>, <<42878, 42886, 2, 1>>,
       <<42891, 42891, 1, 1>>, <<42893, 42893, 1, -42280>>,
       <<42896, 42898, 2, 1>>, <<42902, 42920, 2, 1>>,
       <<42922, 42922, 1, -42308>>, <<42923, 42923, 1, -42319>>,
       <<42924, 42924, 1, -42315>>, <<42925, 42925, 1, -42305>>,
       <<42926, 42926, 1, -42308>>, <<42928, 42928, 1, -42258>>,
       <<42929, 42929, 1, -42282>>, <<42930, 42930, 1, -42261>>,
       <<42931, 42931, 1, 928>>, <<42932, 42946, 2, 1>>,
       <<42948, 42948, 1, -48>>, <<42949, 42949, 1, -42307>>,
       <<42950, 42950, 1, -35384>>, <<42951, 42953, 2, 1>>,
       <<42960, 42960, 1, 1>>, <<42966, 42968, 2, 1>>,
       <<42997, 42997, 1, 1>>, <<65313, 65338, 1, 32>>,
       <<66560, 66599, 1, 40>>, <<66736, 66771, 1, 40>>,
       <<66928, 66938, 1, 39>>, <<66940, 66954, 1, 39>>,
       <<66956, 66962, 1, 39>>, <<66964, 66965, 1, 39>>,
       <<68736, 68786, 1, 64>>, <<71840, 71871, 1, 32>>,
       <<93760, 93791, 1, 32>>, <<125184, 125217, 1, 34>> >>

\* the table of lower(): each capital to its lower-case code point
LowerTable ==
    LET entries == { LowerRanges[k] : k \in DOMAIN LowerRanges }
        capitals(r) == { c \in r[1]..r[2] : (c - r[1]) % r[3] = 0 }
    IN  [ c \in UNION { capitals(r) : r \in entries } |->
            c + (CHOOSE r \in entries : c \in capitals(r))[4] ]

\* lower() of the one character of code point c on its own; U+0130 (304) is
\* the one character whose lower() has two, i and the combining dot U+0307
LowerChar(c) ==
    IF c = 304 THEN << 105, 775 >>
    ELSE IF c \in DOMAIN LowerTable THEN << LowerTable[c] >>
    ELSE << c >>

\* the characters str.lower() skips when it looks for the letters around a
\* capital sigma (Unicode property Case_Ignorable), as ranges << lo, hi >>
CaseIgnorableRanges ==
    << <<39, 39>>, <<46, 46>>, <<58, 58>>, <<94, 94>>, <<96, 96>>,
       <<168, 168>>, <<173, 173>>, <<175, 175>>, <<180, 180>>, <<183, 184>>,
       <<688, 879>>, <<884, 885>>, <<890, 890>>, <<900, 901>>, <<903, 903>>,
       <<1155, 1161>>, <<1369, 1369>>, <<1375, 1375>>, <<1425, 1469>>,
       <<1471, 1471>>, <<1473, 1474>>, <<1476, 1477>>, <<1479, 1479>>,
       <<1524, 1524>>, <<1536, 1541>>, <<1552, 1562>>, <<1564, 1564>>,
       <<1600, 1600>>, <<1611, 1631>>, <<1648, 1648>>, <<1750, 1757>>,
       <<1759, 1768>>, <<1770, 1773>>, <<1807, 1807>>, <<1809, 1809>>,
       <<1840, 1866>>, <<1958, 1968>>, <<2027, 2037>>, <<2042, 2042>>,
       <<2045, 2045>>, <<2070, 2093>>, <<2137, 2139>>, <<2184, 2184>>,
       <<2192, 2193>>, <<2200, 2207>>, <<2249, 2306>>, <<2362, 2362>>,
       <<2364, 2364>>, <<2369, 2376>>, <<2381, 2381>>, <<2385, 2391>>,
       <<2402, 2403>>, <<2417, 2417>>, <<2433, 2433>>, <<2492, 2492>>,
       <<2497, 2500>>, <<2509, 2509>>, <<2530, 2531>>, <<2558, 2558>>,
       <<2561, 2562>>, <<2620, 2620>>, <<2625, 2626>>, <<2631, 2632>>,
       <<2635, 2637>>, <<2641, 2641>>, <<2672, 2673>>, <<2677, 2677>>,
       <<2689, 2690>>, <<2748, 2748>>, <<2753, 2757>>, <<2759, 2760>>,
       <<2765, 2765>>, <<2786, 2787>>, <<2810, 2815>>, <<2817, 2817>>,
       <<2876, 2876>>, <<2879, 2879>>, <<2881, 2884>>, <<2893, 2893>>,
       <<2901, 2902>>, <<2914, 2915>>, <<2946, 2946>>, <<3008, 3008>>,
       <<3021, 3021>>, <<3072, 3072>>, <<3076, 3076>>, <<3132, 3132>>,
       <<3134, 3136>>, <<3142, 3144>>, <<3146, 3149>>, <<3157, 3158>>,
       <<3170, 3171>>, <<3201, 3201>>, <<3260, 3260>>, <<3263, 3263>>,
       <<3270, 3270>>, <<3276, 3277>>, <<3298, 3299>>, <<3328, 3329>>,
       <<3387, 3388>>, <<3393, 3396>>, <<3405, 3405>>, <<3426, 3427>>,
       <<3457, 3457>>, <<3530, 3530>>, <<3538, 3540>>, <<3542, 3542>>,
       <<3633, 3633>>, <<3636, 3642>>, <<3654, 3662>>, <<3761, 3761>>,
       <<3764, 3772>>, <<3782, 3782>>, <<3784, 3789>>, <<3864, 3865>>,
       <<3893, 3893>>, <<3895, 3895>>, <<3897, 3897>>, <<3953, 3966>>,
       <<3968, 3972>>, <<3974, 3975>>, <<3981, 3991>>, <<3993, 4028>>,
       <<4038, 4038>>, <<4141, 4144>>, <<4146, 4151>>, <<4153, 4154>>,
       <<4157, 4158>>, <<4184, 4185>>, <<4190, 4192>>, <<4209, 4212>>,
       <<4226, 4226>>, <<4229, 4230>>, <<4237, 4237>>, <<4253, 4253>>,
       <<4348, 4348>>, <<4957, 4959>>, <<5906, 5908>>, <<5938, 5939>>,
       <<5970, 5971>>, <<6002, 6003>>, <<6068, 6069>>, <<6071, 6077>>,
       <<6086, 6086>>, <<6089, 6099>>, <<6103, 6103>>, <<6109, 6109>>,
       <<6155, 6159>>, <<6211, 6211>>, <<6277, 6278>>, <<6313, 6313>>,
       <<6432, 6434>>, <<6439, 6440>>, <<6450, 6450>>, <<6457, 6459>>,
       <<6679, 6680>>, <<6683, 6683>>, <<6742, 6742>>, <<6744, 6750>>,
       <<6752, 6752>>, <<6754, 6754>>, <<6757, 6764>>, <<6771, 6780>>,
       <<6783, 6783>>, <<6823, 6823>>, <<6832, 6862>>, <<6912, 6915>>,
       <<6964, 6964>>, <<6966, 6970>>, <<6972, 6972>>, <<6978, 6978>>,
       <<7019, 7027>>, <<7040, 7041>>, <<7074, 7077>>, <<7080, 7081>>,
       <<7083, 7085>>, <<7142, 7142>>, <<7144, 7145>>, <<7149, 7149>>,
       <<7151, 7153>>, <<7212, 7219>>, <<7222, 7223>>, <<7288, 7293>>,
       <<7376, 7378>>, <<7380, 7392>>, <<7394, 7400>>, <<7405, 7405>>,
       <<7412, 7412>>, <<7416, 7417>>, <<7468, 7530>>, <<7544, 7544>>,
       <<7579, 7679>>, <<8125, 8125>>, <<8127, 8129>>, <<8141, 8143>>,
       <<8157, 8159>>, <<8173, 8175>>, <<8189, 8190>>, <<8203, 8207>>,
       <<8216, 8217>>, <<8228, 8228>>, <<8231, 8231>>, <<8234, 8238>>,
       <<8288, 8292>>, <<8294, 8303>>, <<8305, 8305>>, <<8319, 8319>>,
       <<8336, 8348>>, <<8400, 8432>>, <<11388, 11389>>, <<11503, 11505>>,
       <<11631, 11631>>, <<11647, 11647>>, <<11744, 11775>>,
       <<11823, 11823>>, <<12293, 12293>>, <<12330, 12333>>,
       <<12337, 12341>>, <<12347, 12347>>, <<12441, 12446>>,
       <<12540, 12542>>, <<40981, 40981>>, <<42232, 42237>>,
       <<42508, 42508>>, <<42607, 42610>>, <<42612, 42621>>,
       <<42623, 42623>>, <<42652, 42655>>, <<42736, 42737>>,
       <<42752, 42785>>, <<42864, 42864>>, <<42888, 42890>>,
       <<42994, 42996>>, <<43000, 43001>>, <<43010, 43010>>,
       <<43014, 43014>>, <<43019, 43019>>, <<43045, 43046>>,
       <<43052, 43052>>, <<43204, 43205>>, <<43232, 43249>>,
       <<43263, 43263>>, <<43302, 43309>>, <<43335, 43345>>,
       <<43392, 43394>>, <<43443, 43443>>, <<43446, 43449>>,
       <<43452, 43453>>, <<43471, 43471>>, <<43493, 43494>>,
       <<43561, 43566>>, <<43569, 43570>>, <<43573, 43574>>,
       <<43587, 43587>>, <<43596, 43596>>, <<43632, 43632>>,
       <<43644, 43644>>, <<43696, 43696>>, <<43698, 43700>>,
       <<43703, 43704>>, <<43710, 43711>>, <<43713, 43713>>,
       <<43741, 43741>>, <<43756, 43757>>, <<43763, 43764>>,
       <<43766, 43766>>, <<43867, 43871>>, <<43881, 43883>>,
       <<44005, 44005>>, <<44008, 44008>>, <<44013, 44013>>,
       <<64286, 64286>>, <<64434, 64450>>, <<65024, 65039>>,
       <<65043, 65043>>, <<65056, 65071>>, <<65106, 65106>>,
       <<65109, 65109>>, <<65279, 65279>>, <<65287, 65287>>,
       <<65294, 65294>>, <<65306, 65306>>, <<65342, 65342>>,
       <<65344, 65344>>, <<65392, 65392>>, <<65438, 65439>>,
       <<65507, 65507>>, <<65529, 65531>>, <<66045, 66045>>,
       <<66272, 66272>>, <<66422, 66426>>, <<67456, 67461>>,
       <<67463, 67504>>, <<67506, 67514>>, <<68097, 68099>>,
       <<68101, 68102>>, <<68108, 68111>>, <<68152, 68154>>,
       <<68159, 68159>>, <<68325, 68326>>, <<68900, 68903>>,
       <<69291, 69292>>, <<69446, 69456>>, <<69506, 69509>>,
       <<69633, 69633>>, <<69688, 69702>>, <<69744, 69744>>,
       <<69747, 69748>>, <<69759, 69761>>, <<69811, 69814>>,
       <<69817, 69818>>, <<69821, 69821>>, <<69826, 69826>>,
       <<69837, 69837>>, <<69888, 69890>>, <<69927, 69931>>,
       <<69933, 69940>>, <<70003, 70003>>, <<70016, 70017>>,
       <<70070, 70078>>, <<70089, 70092>>, <<70095, 70095>>,
       <<70191, 70193>>, <<70196, 70196>>, <<70198, 70199>>,
       <<70206, 70206>>, <<70367, 70367>>, <<70371, 70378>>,
       <<70400, 70401>>, <<70459, 70460>>, <<70464, 70464>>,
       <<70502, 70508>>, <<70512, 70516>>, <<70712, 70719>>,
       <<70722, 70724>>, <<70726, 70726>>, <<70750, 70750>>,
       <<70835, 70840>>, <<70842, 70842>>, <<70847, 70848>>,
       <<70850, 70851>>, <<71090, 71093>>, <<71100, 71101>>,
       <<71103, 71104>>, <<71132, 71133>>, <<71219, 71226>>,
       <<71229, 71229>>, <<71231, 71232>>, <<71339, 71339>>,
       <<71341, 71341>>, <<71344, 71349>>, <<71351, 71351>>,
       <<71453, 71455>>, <<71458, 71461>>, <<71463, 71467>>,
       <<71727, 71735>>, <<71737, 71738>>, <<71995, 71996>>,
       <<71998, 71998>>, <<72003, 72003>>, <<72148, 72151>>,
       <<72154, 72155>>, <<72160, 72160>>, <<72193, 72202>>,
       <<72243, 72248>>, <<72251, 72254>>, <<72263, 72263>>,
       <<72273, 72278>>, <<72281, 72283>>, <<72330, 72342>>,
       <<72344, 72345>>, <<72752, 72758>>, <<72760, 72765>>,
       <<72767, 72767>>, <<72850, 72871>>, <<72874, 72880>>,
       <<72882, 72883>>, <<72885, 72886>>, <<73009, 73014>>,
       <<73018, 73018>>, <<73020, 73021>>, <<73023, 73029>>,
       <<73031, 73031>>, <<73104, 73105>>, <<73109, 73109>>,
       <<73111, 73111>>, <<73459, 73460>>, <<78896, 78904>>,
       <<92912, 92916>>, <<92976, 92982>>, <<92992, 92995>>,
       <<94031, 94031>>, <<94095, 94111>>, <<94176, 94177>>,
       <<94179, 94180>>, <<110576, 110579>>, <<110581, 110587>>,
       <<110589, 110590>>, <<113821, 113822>>, <<113824, 113827>>,
       <<118528, 118573>>, <<118576, 118598>>, <<119143, 119145>>,
       <<119155, 119170>>, <<119173, 119179>>, <<119210, 119213>>,
       <<119362, 119364>>, <<121344, 121398>>, <<121403, 121452>>,
       <<121461, 121461>>, <<121476, 121476>>, <<121499, 121503>>,
       <<121505, 121519>>, <<122880, 122886>>, <<122888, 122904>>,
       <<122907, 122913>>, <<122915, 122916>>, <<122918, 122922>>,
       <<123184, 123197>>, <<123566, 123566>>, <<123628, 123631>>,
       <<125136, 125142>>, <<125252, 125259>>, <<127995, 127999>>,
       <<917505, 917505>>, <<917536, 917631>>, <<917760, 917999>> >>

CaseIgnorableChars ==
    UNION { r[1]..r[2] :
              r \in { CaseIgnorableRanges[k] : k \in DOMAIN CaseIgnorableRanges } }

\* the characters str.lower() takes for letters of a word around a capital
\* sigma (Unicode property Cased, of the characters not skipped), as ranges
CasedRanges ==
    << <<65, 90>>, <<97, 122>>, <<170, 170>>, <<181, 181>>, <<186, 186>>,
       <<192, 214>>, <<216, 246>>, <<248, 442>>, <<444, 447>>, <<452, 659>>,
       <<661, 687>>, <<880, 883>>, <<886, 887>>, <<891, 893>>, <<895, 895>>,
       <<902, 902>>, <<904, 906>>, <<908, 908>>, <<910, 929>>, <<931, 1013>>,
       <<1015, 1153>>, <<1162, 1327>>, <<1329, 1366>>, <<1376, 1416>>,
       <<4256, 4293>>, <<4295, 4295>>, <<4301, 4301>>, <<4304, 4346>>,
       <<4349, 4351>>, <<5024, 5109>>, <<5112, 5117>>, <<7296, 7304>>,
       <<7312, 7354>>, <<7357, 7359>>, <<7424, 7467>>, <<7531, 7543>>,
       <<7545, 7578>>, <<7680, 7957>>, <<7960, 7965>>, <<7968, 8005>>,
       <<8008, 8013>>, <<8016, 8023>>, <<8025, 8025>>, <<8027, 8027>>,
       <<8029, 8029>>, <<8031, 8061>>, <<8064, 8116>>, <<8118, 8124>>,
       <<8126, 8126>>, <<8130, 8132>>, <<8134, 8140>>, <<8144, 8147>>,
       <<8150, 8155>>, <<8160, 8172>>, <<8178, 8180>>, <<8182, 8188>>,
       <<8450, 8450>>, <<8455, 8455>>, <<8458, 8467>>, <<8469, 8469>>,
       <<8473, 8477>>, <<8484, 8484>>, <<8486, 8486>>, <<8488, 8488>>,
       <<8490, 8493>>, <<8495, 8500>>, <<8505, 8505>>, <<8508, 8511>>,
       <<8517, 8521>>, <<8526, 8526>>, <<8544, 8575>>, <<8579, 8580>>,
       <<9398, 9449>>, <<11264, 11387>>, <<11390, 11492>>, <<11499, 11502>>,
       <<11506, 11507>>, <<11520, 11557>>, <<11559, 11559>>,
       <<11565, 11565>>, <<42560, 42605>>, <<42624, 42651>>,
       <<42786, 42863>>, <<42865, 42887>>, <<42891, 42894>>,
       <<42896, 42954>>, <<42960, 42961>>, <<42963, 42963>>,
       <<42965, 42969>>, <<42997, 42998>>, <<43002, 43002>>,
       <<43824, 43866>>, <<43872, 43880>>, <<43888, 43967>>,
       <<64256, 64262>>, <<64275, 64279>>, <<65313, 65338>>,
       <<65345, 65370>>, <<66560, 66639>>, <<66736, 66771>>,
       <<66776, 66811>>, <<66928, 66938>>, <<66940, 66954>>,
       <<66956, 66962>>, <<66964, 66965>>, <<66967, 66977>>,
       <<66979, 66993>>, <<66995, 67001>>, <<67003, 67004>>,
       <<68736, 68786>>, <<68800, 68850>>, <<71840, 71903>>,
       <<93760, 93823>>, <<119808, 119892>>, <<119894, 119964>>,
       <<119966, 119967>>, <<119970, 119970>>, <<119973, 119974>>,
       <<119977, 119980>>, <<119982, 119993>>, <<119995, 119995>>,
       <<119997, 120003>>, <<120005, 120069>>, <<120071, 120074>>,
       <<120077, 120084>>, <<120086, 120092>>, <<120094, 120121>>,
       <<120123, 120126>>, <<120128, 120132>>, <<120134, 120134>>,
       <<120138, 120144>>, <<120146, 120485>>, <<120488, 120512>>,
       <<120514, 120538>>, <<120540, 120570>>, <<120572, 120596>>,
       <<120598, 120628>>, <<120630, 120654>>, <<120656, 120686>>,
       <<120688, 120712>>, <<120714, 120744>>, <<120746, 120770>>,
       <<120772, 120779>>, <<122624, 122633>>, <<122635, 122654>>,
       <<125184, 125251>>, <<127280, 127305>>, <<127312, 127337>>,
       <<127344, 127369>> >>

CasedChars ==
    UNION { r[1]..r[2] : r \in { CasedRanges[k] : k \in DOMAIN CasedRanges } }

\* the Final_Sigma rule of str.lower(): the capital sigma at position i of s
\* ends a word when the nearest character before it that is not skipped is
\* a letter and the nearest one after it, if any, is not
FinalSigma(s, i) ==
    LET before == { j \in 1..(i - 1) : s[j] \notin CaseIgnorableChars }
        after == { j \in (i + 1)..Len(s) : s[j] \notin CaseIgnorableChars }
        last == CHOOSE j \in before : \A k \in before : k <= j
        first == CHOOSE j \in after : \A k \in after : j <= k
    IN  /\ before # {}
        /\ s[last] \in CasedChars
        /\ after = {} \/ s[first] \notin CasedChars

\* lower() of the character at position i of s: the capital sigma U+03A3
\* (931) becomes the final sigma U+03C2 (962) or the sigma U+03C3 (963)
LowerAt(s, i) ==
    IF s[i] = 931
    THEN IF FinalSigma(s, i) THEN << 962 >> ELSE << 963 >>
    ELSE LowerChar(s[i])

\* the lower-cased characters of s from position i on
RECURSIVE LowerFrom(_, _)
LowerFrom(s, i) ==
    IF i > Len(s) THEN << >>
    ELSE LowerAt(s, i) \o LowerFrom(s, i + 1)

(***************************************************************************)
(* Bounds and input sets                                                   *)
(***************************************************************************)
\* the requests (threads of control) the model can hold
Workflows == {1, 2}

\* resource types the extractor may write after "resource_type:"; the last
\* four hold form feed, VT and FS around the phrase; E acute and a capital
\* sigma; em space, U+0181 and the ideographic space; U+0130 inside a phrase
TypeInputs ==
    { PyStr("resource group"), PyStr("storage account"),
      PyStr("function app"), PyStr("web app"),
      PyStr("logic app"), PyStr("virtual machine"), PyStr("Web App"), PyStr(" STORAGE Account "),
      PyStr("web app or function app"), PyStr("Logic App in a resource group"),
      << 12, 11 >> \o PyStr("Logic App\t") \o << 28 >>,
      << 32, 201, 931 >> \o PyStr(" Web App or FUNCTION App\t"),
      << 8195, 385 >> \o PyStr(" Storage Account") \o << 12288 >>,
      PyStr("LOG") \o << 304 >> \o PyStr("C APP") }

\* names and locations the extractor may write
NameInputs == { << >>, PyStr("  "), PyStr("a1"), PyStr("B2") }
LocationInputs == { << >>, PyStr(" "), PyStr("westus") }

\* texts of the exceptions the remote services raise
ErrTexts == { PyStr("Conflict"), PyStr("AuthorizationFailed") }

\* well-formed extractor replies: the three labels in the fixed order
WellFormedReplies ==
    { PyStr("resource_type: ") \o ty \o PyStr("\nname: ") \o nm \o PyStr("\nlocation: ") \o loc :
        ty \in TypeInputs, nm \in NameInputs, loc \in LocationInputs }

\* replies that lack one or more of the labels
MalformedReplies ==
    { << >>, PyStr("Sorry, I cannot help."), PyStr("resource_type: web app"),
      PyStr("name: a1\nlocation: westus"), PyStr("resource_type: web app\nname: a1"),
      PyStr("resource_type: logic app\nlocation: westus") }

ReplyTexts == WellFormedReplies \cup MalformedReplies

\* storage account names whose availability the remote side decides
StorageNames == { PyStr("a1"), PyStr("b2") }

\* str.lower()
Lower(s) == LowerFrom(s, 1)

\* str.find(sub) + 1: the 1-based index of the first occurrence, 0 if none
Find(s, sub) ==
    LET starts == { i \in 1..(Len(s) - Len(sub) + 1) :
                      SubSeq(s, i, i + Len(sub) - 1) = sub }
    IN IF starts = {} THEN 0
       ELSE CHOOSE i \in starts : \A j \in starts : i <= j

\* the Python operator `sub in s`
Contains(s, sub) == Find(s, sub) # 0

\* s.split(sep)[0]: everything before the first sep, all of s if there is none
Split0(s, sep) ==
    IF Contains(s, sep) THEN SubSeq(s, 1, Find(s, sep) - 1) ELSE s

\* s.split(sep)[1] is defined iff sep occurs in s (else IndexError)
HasSplit1(s, sep) == Contains(s, sep)

\* s.split(sep)[1]: what lies between the first and the second sep
Split1(s, sep) ==
    Split0(SubSeq(s, Find(s, sep) + Len(sep), Len(s)), sep)

(***************************************************************************)
(* Parsing and dispatch in index(), app.py lines 293-312                   *)
(***************************************************************************)
\* line 293: parsed = response.text.strip().lower()
Parsed(text) == Lower(Strip(text))

\* only the first label is required
ParseOk_first(parsed) == HasSplit1(parsed, PyStr("resource_type:"))

\* lines 295-297 raise IndexError unless each label occurs in parsed
ParseOk(parsed) ==
    /\ HasSplit1(parsed, PyStr("resource_type:"))
    /\ HasSplit1(parsed, PyStr("name:"))
    /\ HasSplit1(parsed, PyStr("location:"))

\* line 295
ParseResourceType(parsed) ==
    Strip(Split0(Split1(parsed, PyStr("resource_type:")), PyStr("name:")))

\* line 296
ParseName(parsed) ==
    Strip(Split0(Split1(parsed, PyStr("name:")), PyStr("location:")))

\* line 297
ParseLocation(parsed) == Strip(Split1(parsed, PyStr("location:")))

\* str(IndexError) of a list subscript
IndexErrorText == PyStr("list index out of range")

\* lines 293-297 on one reply text: whether the three subscripts succeed and
\* the fields bound when the last of them returns or the first of them
\* raises; a local that was not bound is ""
ParseReply(text) ==
    LET parsed == Parsed(text)
        has_type == HasSplit1(parsed, PyStr("resource_type:"))
        has_name == has_type /\ HasSplit1(parsed, PyStr("name:"))
        has_location == has_name /\ HasSplit1(parsed, PyStr("location:"))
    IN  [ ok |-> ParseOk(parsed),
          resource_type |-> IF has_type THEN ParseResourceType(parsed) ELSE << >>,
          name |-> IF has_name THEN ParseName(parsed) ELSE << >>,
          location |-> IF has_location THEN ParseLocation(parsed) ELSE << >> ]

\* ParseReply tabulated over the reply texts of the model
IndexParse == [ text \in ReplyTexts |-> ParseReply(text) ]

\* the chain with a final else that falls back to the resource group
Dispatch_default(rt) ==
    IF Contains(rt, PyStr("resource group")) THEN "create_resource_group"
    ELSE IF Contains(rt, PyStr("storage account")) THEN "create_storage_account"
    ELSE IF Contains(rt, PyStr("function app")) THEN "create_function_app"
    ELSE IF Contains(rt, PyStr("web app")) THEN "create_web_app"
    ELSE IF Contains(rt, PyStr("logic app")) THEN "create_logic_app"
    ELSE "create_resource_group"

\* the chain with the web app branch ahead of the function app branch
Dispatch_weborder(rt) ==
    IF Contains(rt, PyStr("resource group")) THEN "create_resource_group"
    ELSE IF Contains(rt, PyStr("storage account")) THEN "create_storage_account"
    ELSE IF Contains(rt, PyStr("web app")) THEN "create_web_app"
    ELSE IF Contains(rt, PyStr("function app")) THEN "create_function_app"
    ELSE IF Contains(rt, PyStr("logic app")) THEN "create_logic_app"
    ELSE IF Contains(rt, PyStr("Web app")) THEN "create_web_app"
    ELSE "unknown"

\* lines 299-312: the if/elif chain; the value is the provisioner called
Dispatch(rt) ==
    IF Contains(rt, PyStr("resource group")) THEN "create_resource_group"
    ELSE IF Contains(rt, PyStr("storage account")) THEN "create_storage_account"
    ELSE IF Contains(rt, PyStr("function app")) THEN "create_function_app"
    ELSE IF Contains(rt, PyStr("web app")) THEN "create_web_app"
    ELSE IF Contains(rt, PyStr("logic app")) THEN "create_logic_app"
    ELSE IF Contains(rt, PyStr("Web app")) THEN "create_web_app"
    ELSE "unknown"

\* the first program position of each provisioner
Entry(prov) ==
    CASE prov = "create_resource_group" -> "rg_create"
      [] prov = "create_storage_account" -> "sa_check"
      [] prov = "create_function_app" -> "fa_check"
      [] prov = "create_web_app" -> "wa_rg"
      [] prov = "create_logic_app" -> "la_rg"

(***************************************************************************)
(* State                                                                   *)
(***************************************************************************)
VARIABLES
    pc,             \* pc[w]: position of request w in index() / a provisioner
    method,         \* method[w]: request.method
    reply,          \* reply[w]: what model.generate_content does for w
    resource_type,  \* locals of index(), lines 295-297
    name,
    location,
    provisioner,    \* provisioner[w]: the create_* function index() called
    result,         \* result[w]: the local `result` of index()
    caught,         \* caught[w]: origin of the exception index() caught
    availability,   \* availability[w]: the local availability.name_available
    calls,          \* calls[w]: the cloud-management calls w has issued
    lro,            \* lro[w]: what the current poller's operation ends in
    groups,         \* remote: resource groups that exist
    taken           \* remote: storage account names that are not available

vars == << pc, method, reply, resource_type, name, location, provisioner,
           result, caught, availability, calls, lro, groups, taken >>

\* the remote operations of the SDK clients
OpCheck == "storage_accounts.check_name_availability"
OpGroup == "resource_groups.create_or_update"
OpStorage == "storage_accounts.begin_create"
OpPlan == "app_service_plans.begin_create_or_update"
OpSite == "web_apps.begin_create_or_update"
OpDeploy == "deployments.begin_create_or_update"

Mutating == { OpGroup, OpStorage, OpPlan, OpSite, OpDeploy }
LongRunning == { OpStorage, OpPlan, OpSite, OpDeploy }

Replies ==
    [ raises : {FALSE}, text : ReplyTexts ] \cup [ raises : {TRUE}, text : ErrTexts ]

\* the state after construction: the requests in `active` have arrived,
\* nothing has been called yet
InitWith(active) ==
    /\ pc = [w \in Workflows |-> IF w \in active THEN "request" ELSE "absent"]
    /\ method \in [Workflows -> {"GET", "POST", "-"}]
    /\ \A w \in Workflows : (method[w] = "-") <=> (w \notin active)
    /\ reply \in [Workflows -> Replies]
    /\ \A w \in Workflows :
          (w \notin active \/ method[w] = "GET") =>
              reply[w] = [raises |-> FALSE, text |-> << >>]
    /\ resource_type = [w \in Workflows |-> << >>]
    /\ name = [w \in Workflows |-> << >>]
    /\ location = [w \in Workflows |-> << >>]
    /\ provisioner = [w \in Workflows |-> "none"]
    /\ result = [w \in Workflows |-> << >>]
    /\ caught = [w \in Workflows |-> "none"]
    /\ availability = [w \in Workflows |-> "unset"]
    /\ calls = [w \in Workflows |-> << >>]
    /\ lro = [w \in Workflows |-> "none"]
    /\ groups = {}
    /\ taken \in SUBSET StorageNames

Init == InitWith({1})

\* the replies of the requests that run side by side: one well-formed reply
\* per resource kind and name
ConcurrentReplyTexts ==
    { PyStr("resource_type: ") \o ty \o PyStr("\nname: ") \o nm
          \o PyStr("\nlocation: westus") :
        ty \in { PyStr("resource group"), PyStr("storage account"),
                 PyStr("function app"), PyStr("web app"),
                 PyStr("logic app") },
        nm \in { PyStr("a1"), PyStr("B2") } }

\* two requests have arrived and are handled on two threads
ConcurrentInit ==
    /\ InitWith(Workflows)
    /\ \A w \in Workflows :
          method[w] = "POST" => (~reply[w].raises /\ reply[w].text \in ConcurrentReplyTexts)

(***************************************************************************)
(* Helpers shared by the actions                                           *)
(***************************************************************************)
\* a remote call is issued: it is appended to the caller's log
Log(w, op, target, st) ==
    calls' = [calls EXCEPT ![w] =
                Append(@, [op |-> op, target |-> target, state |-> st, error |-> << >>])]

\* a remote call is issued and raises an exception whose text is e
LogFailed(w, op, target, e) ==
    calls' = [calls EXCEPT ![w] =
                Append(@, [op |-> op, target |-> target, state |-> "Failed", error |-> e])]

\* the last call of w reaches a terminal state; e is the text of the
\* exception poller.result() raises, "" if it returns
SetLast(w, st, e) ==
    calls' = [calls EXCEPT ![w] = [@ EXCEPT ![Len(@)].state = st, ![Len(@)].error = e]]

\* a provisioner returns msg to index(), which assigns it to result
Return(w, msg) ==
    /\ result' = [result EXCEPT ![w] = msg]
    /\ pc' = [pc EXCEPT ![w] = "render"]
    /\ UNCHANGED caught

\* the except block assigns the bare text of the exception
IndexCatch_bare(w, e, origin) ==
    /\ result' = [result EXCEPT ![w] = e]
    /\ caught' = [caught EXCEPT ![w] = origin]
    /\ pc' = [pc EXCEPT ![w] = "render"]

\* lines 314-315: index() catches an exception e raised at `origin`
IndexCatch(w, e, origin) ==
    /\ result' = [result EXCEPT ![w] = FailMark \o PyStr(" Error: ") \o e]
    /\ caught' = [caught EXCEPT ![w] = origin]
    /\ pc' = [pc EXCEPT ![w] = "render"]

Goto(w, p) ==
    /\ pc' = [pc EXCEPT ![w] = p]
    /\ UNCHANGED << result, caught >>

(***************************************************************************)
(* index(), lines 257-317                                                  *)
(***************************************************************************)
\* GET: lines 259, 260, 317
index_get(w) ==
    /\ pc[w] = "request"
    /\ method[w] = "GET"
    /\ Return(w, << >>)
    /\ UNCHANGED << method, reply, resource_type, name, location, provisioner,
                    availability, calls, lro, groups, taken >>

\* name is a module-level global that every request thread assigns
index_post_shared(w) ==
    /\ pc[w] = "request"
    /\ method[w] = "POST"
    /\ IF reply[w].raises
       THEN /\ IndexCatch(w, reply[w].text, "extractor")
            /\ UNCHANGED << resource_type, name, location, provisioner >>
       ELSE LET fields == IndexParse[reply[w].text] IN
            IF ~fields.ok
            THEN \* lines 295-297 bound the locals ahead of the IndexError
                 /\ resource_type' = [resource_type EXCEPT ![w] = fields.resource_type]
                 /\ name' = [name EXCEPT ![w] = fields.name]
                 /\ location' = [location EXCEPT ![w] = fields.location]
                 /\ IndexCatch(w, IndexErrorText, "parse")
                 /\ UNCHANGED provisioner
            ELSE LET rt == fields.resource_type IN
                 /\ resource_type' = [resource_type EXCEPT ![w] = rt]
                 /\ name' = [v \in Workflows |-> fields.name]
                 /\ location' = [location EXCEPT ![w] = fields.location]
                 /\ IF Dispatch(rt) = "unknown"
                    THEN /\ Return(w, FailMark \o PyStr(" Unknown resource type '")
                                      \o rt \o PyStr("'."))
                         /\ UNCHANGED provisioner
                    ELSE /\ provisioner' = [provisioner EXCEPT ![w] = Dispatch(rt)]
                         /\ Goto(w, Entry(Dispatch(rt)))
    /\ UNCHANGED << method, reply, availability, calls, lro, groups, taken >>

\* POST: lines 259-312 up to the call of the provisioner
index_post(w) ==
    /\ pc[w] = "request"
    /\ method[w] = "POST"
    /\ IF reply[w].raises
       THEN \* model.generate_content raised
            /\ IndexCatch(w, reply[w].text, "extractor")
            /\ UNCHANGED << resource_type, name, location, provisioner >>
       ELSE LET fields == IndexParse[reply[w].text] IN
            IF ~fields.ok
            THEN \* lines 295-297 bound the locals ahead of the IndexError
                 /\ resource_type' = [resource_type EXCEPT ![w] = fields.resource_type]
                 /\ name' = [name EXCEPT ![w] = fields.name]
                 /\ location' = [location EXCEPT ![w] = fields.location]
                 /\ IndexCatch(w, IndexErrorText, "parse")
                 /\ UNCHANGED provisioner
            ELSE LET rt == fields.resource_type IN
                 /\ resource_type' = [resource_type EXCEPT ![w] = rt]
                 /\ name' = [name EXCEPT ![w] = fields.name]
                 /\ location' = [location EXCEPT ![w] = fields.location]
                 /\ IF Dispatch(rt) = "unknown"
                    THEN /\ Return(w, FailMark \o PyStr(" Unknown resource type '")
                                      \o rt \o PyStr("'."))
                         /\ UNCHANGED provisioner
                    ELSE /\ provisioner' = [provisioner EXCEPT ![w] = Dispatch(rt)]
                         /\ Goto(w, Entry(Dispatch(rt)))
    /\ UNCHANGED << method, reply, availability, calls, lro, groups, taken >>

\* line 317: render_template("index.html", result=result)
index_render(w) ==
    /\ pc[w] = "render"
    /\ pc' = [pc EXCEPT ![w] = "done"]
    /\ UNCHANGED << method, reply, resource_type, name, location, provisioner,
                    result, caught, availability, calls, lro, groups, taken >>

(***************************************************************************)
(* The remote side, as the provisioners see it.  Every remote call either  *)
(* returns or raises; an accepted long-running operation ends Succeeded,   *)
(* ends Failed (poller.result() raises) or never reaches a terminal state. *)
(* poller.result() is always called without a timeout: it returns or       *)
(* raises once the operation is terminal and blocks until then, so a wait  *)
(* on an operation that never ends has no step.                            *)
(***************************************************************************)
locals == << method, reply, resource_type, name, location, provisioner >>

\* availability.name_available for account name n
NameAvailable(n) == n \notin taken

\* a Python bool as it is held in the variable availability
PyBool(b) == IF b THEN "True" ELSE "False"

\* begin_* returned a poller for op on target; the caller goes on to waitpc
BeginAccepted(w, op, target, waitpc) ==
    /\ Log(w, op, target, "Submitted")
    /\ \E fate \in {"Succeeded", "Failed", "Never"} : lro' = [lro EXCEPT ![w] = fate]
    /\ Goto(w, waitpc)

\* poller.result() returned; the caller goes on with `cont`
ResultReturned(w) ==
    /\ lro[w] = "Succeeded"
    /\ SetLast(w, "Succeeded", << >>)
    /\ lro' = [lro EXCEPT ![w] = "none"]

\* poller.result() raises e: the operation ended in a failure state
ResultRaised(w, e) ==
    /\ lro[w] = "Failed"
    /\ SetLast(w, "Failed", e)
    /\ lro' = [lro EXCEPT ![w] = "none"]

(***************************************************************************)
(* create_resource_group, lines 23-25                                      *)
(***************************************************************************)
\* the group is created only if it does not exist yet
create_resource_group_once(w) ==
    /\ pc[w] = "rg_create"
    /\ \/ /\ name[w] \notin groups
          /\ Log(w, OpGroup, name[w], "Succeeded")
          /\ groups' = groups \cup {name[w]}
          /\ Return(w, OkMark \o PyStr(" Resource group '") \o name[w]
                        \o PyStr("' created in '") \o location[w] \o PyStr("'."))
       \/ /\ name[w] \in groups
          /\ Return(w, FailMark \o PyStr(" Resource group '") \o name[w]
                        \o PyStr("' already exists."))
          /\ UNCHANGED << calls, groups >>
       \/ \E e \in ErrTexts :
            /\ LogFailed(w, OpGroup, name[w], e)
            /\ IndexCatch(w, e, "create_resource_group")
            /\ UNCHANGED groups
    /\ UNCHANGED << locals, availability, lro, taken >>

create_resource_group(w) ==
    /\ pc[w] = "rg_create"
    /\ \/ /\ Log(w, OpGroup, name[w], "Succeeded")
          /\ groups' = groups \cup {name[w]}
          /\ Return(w, OkMark \o PyStr(" Resource group '") \o name[w]
                        \o PyStr("' created in '") \o location[w] \o PyStr("'."))
       \/ \E e \in ErrTexts :
            /\ LogFailed(w, OpGroup, name[w], e)
            /\ IndexCatch(w, e, "create_resource_group")
            /\ UNCHANGED groups
    /\ UNCHANGED << locals, availability, lro, taken >>

(***************************************************************************)
(* create_storage_account, lines 31-51                                     *)
(***************************************************************************)
\* the early return of line 38 is never taken
StorageNameRejected_never(name_available) == FALSE

\* line 37: the condition of the early return, on availability.name_available
StorageNameRejected(name_available) == ~name_available

\* the storage account is submitted without its resource group
create_storage_account_check_skipgroup(w) ==
    /\ pc[w] = "sa_check"
    /\ \/ /\ Log(w, OpCheck, name[w], "Succeeded")
          /\ availability' = [availability EXCEPT ![w] = PyBool(NameAvailable(name[w]))]
          /\ IF StorageNameRejected(NameAvailable(name[w]))
             THEN Return(w, FailMark \o PyStr(" Storage account name '") \o name[w]
                              \o PyStr("' is not available."))
             ELSE Goto(w, "sa_begin")
       \/ \E e \in ErrTexts :
            /\ LogFailed(w, OpCheck, name[w], e)
            /\ IndexCatch(w, e, "create_storage_account")
            /\ UNCHANGED availability
    /\ UNCHANGED << locals, lro, groups, taken >>

\* lines 36-38: the availability check and the early return
create_storage_account_check(w) ==
    /\ pc[w] = "sa_check"
    /\ \/ /\ Log(w, OpCheck, name[w], "Succeeded")
          /\ availability' = [availability EXCEPT ![w] = PyBool(NameAvailable(name[w]))]
          /\ IF StorageNameRejected(NameAvailable(name[w]))
             THEN Return(w, FailMark \o PyStr(" Storage account name '") \o name[w]
                              \o PyStr("' is not available."))
             ELSE Goto(w, "sa_rg")
       \/ \E e \in ErrTexts :
            /\ LogFailed(w, OpCheck, name[w], e)
            /\ IndexCatch(w, e, "create_storage_account")
            /\ UNCHANGED availability
    /\ UNCHANGED << locals, lro, groups, taken >>

\* line 39 and create_resource_group_resource_type, lines 27-29
create_storage_account_group(w) ==
    /\ pc[w] = "sa_rg"
    /\ \/ /\ Log(w, OpGroup, name[w], "Succeeded")
          /\ groups' = groups \cup {name[w]}
          /\ Goto(w, "sa_begin")
       \/ \E e \in ErrTexts :
            /\ LogFailed(w, OpGroup, name[w], e)
            /\ IndexCatch(w, e, "create_storage_account")
            /\ UNCHANGED groups
    /\ UNCHANGED << locals, availability, lro, taken >>

\* lines 41-49: storage_accounts.begin_create
create_storage_account_begin(w) ==
    /\ pc[w] = "sa_begin"
    /\ \/ BeginAccepted(w, OpStorage, name[w], "sa_wait")
       \/ \E e \in ErrTexts :
            /\ LogFailed(w, OpStorage, name[w], e)
            /\ IndexCatch(w, e, "create_storage_account")
            /\ UNCHANGED lro
    /\ UNCHANGED << locals, availability, groups, taken >>

\* lines 50-51: poller.result() and the success message
create_storage_account_result(w) ==
    /\ pc[w] = "sa_wait"
    /\ \/ /\ ResultReturned(w)
          /\ taken' = taken \cup {name[w]}
          /\ Return(w, OkMark \o PyStr(" Storage account '") \o name[w]
                        \o PyStr("' created in '") \o location[w] \o PyStr("'."))
          /\ UNCHANGED groups
       \/ \E e \in ErrTexts :
            /\ ResultRaised(w, e)
            /\ IndexCatch(w, e, "create_storage_account")
            /\ UNCHANGED << groups, taken >>
    /\ UNCHANGED << locals, availability >>

(***************************************************************************)
(* create_logic_app, lines 53-124                                          *)
(***************************************************************************)
\* line 67: the resource group, outside the try block
create_logic_app_group(w) ==
    /\ pc[w] = "la_rg"
    /\ \/ /\ Log(w, OpGroup, name[w], "Succeeded")
          /\ groups' = groups \cup {name[w]}
          /\ Goto(w, "la_begin")
       \/ \E e \in ErrTexts :
            /\ LogFailed(w, OpGroup, name[w], e)
            /\ IndexCatch(w, e, "create_logic_app")
            /\ UNCHANGED groups
    /\ UNCHANGED << locals, availability, lro, taken >>

\* lines 109-120 and 123-124: deployments.begin_create_or_update
create_logic_app_begin(w) ==
    /\ pc[w] = "la_begin"
    /\ \/ BeginAccepted(w, OpDeploy, name[w] \o PyStr("-logicapp-deployment"), "la_wait")
       \/ \E e \in ErrTexts :
            /\ LogFailed(w, OpDeploy, name[w] \o PyStr("-logicapp-deployment"), e)
            /\ Return(w, FailMark \o PyStr(" Failed to deploy Logic App: ") \o e)
            /\ UNCHANGED lro
    /\ UNCHANGED << locals, availability, groups, taken >>

\* the failure message does not carry the text of the exception
create_logic_app_result_generic(w) ==
    /\ pc[w] = "la_wait"
    /\ \/ /\ ResultReturned(w)
          /\ Return(w, OkMark \o PyStr(" Logic App '") \o name[w]
                        \o PyStr("' successfully deployed in '") \o location[w] \o PyStr("'."))
       \/ \E e \in ErrTexts :
            /\ ResultRaised(w, e)
            /\ Return(w, FailMark \o PyStr(" Failed to deploy Logic App."))
    /\ UNCHANGED << locals, availability, groups, taken >>

\* lines 121-124: poller.result()
create_logic_app_result(w) ==
    /\ pc[w] = "la_wait"
    /\ \/ /\ ResultReturned(w)
          /\ Return(w, OkMark \o PyStr(" Logic App '") \o name[w]
                        \o PyStr("' successfully deployed in '") \o location[w] \o PyStr("'."))
       \/ \E e \in ErrTexts :
            /\ ResultRaised(w, e)
            /\ Return(w, FailMark \o PyStr(" Failed to deploy Logic App: ") \o e)
    /\ UNCHANGED << locals, availability, groups, taken >>

(***************************************************************************)
(* create_web_app, lines 126-179                                           *)
(***************************************************************************)
\* line 144: the resource group, outside the try blocks
create_web_app_group(w) ==
    /\ pc[w] = "wa_rg"
    /\ \/ /\ Log(w, OpGroup, name[w], "Succeeded")
          /\ groups' = groups \cup {name[w]}
          /\ Goto(w, "wa_plan_begin")
       \/ \E e \in ErrTexts :
            /\ LogFailed(w, OpGroup, name[w], e)
            /\ IndexCatch(w, e, "create_web_app")
            /\ UNCHANGED groups
    /\ UNCHANGED << locals, availability, lro, taken >>

\* a refused plan submission is submitted once more
create_web_app_plan_begin_retry(w) ==
    /\ pc[w] = "wa_plan_begin"
    /\ \/ BeginAccepted(w, OpPlan, name[w] \o PyStr("-plan"), "wa_plan_wait")
       \/ \E e \in ErrTexts :
            /\ LogFailed(w, OpPlan, name[w] \o PyStr("-plan"), e)
            /\ IF Len(calls[w]) < 2
               THEN Goto(w, "wa_plan_begin")
               ELSE Return(w, FailMark \o PyStr(" Failed to create App Service Plan: ") \o e)
            /\ UNCHANGED lro
    /\ UNCHANGED << locals, availability, groups, taken >>

\* lines 147-160 and 162-163: app_service_plans.begin_create_or_update
create_web_app_plan_begin(w) ==
    /\ pc[w] = "wa_plan_begin"
    /\ \/ BeginAccepted(w, OpPlan, name[w] \o PyStr("-plan"), "wa_plan_wait")
       \/ \E e \in ErrTexts :
            /\ LogFailed(w, OpPlan, name[w] \o PyStr("-plan"), e)
            /\ Return(w, FailMark \o PyStr(" Failed to create App Service Plan: ") \o e)
            /\ UNCHANGED lro
    /\ UNCHANGED << locals, availability, groups, taken >>

\* the plan's failure is swallowed and the web app step is attempted
create_web_app_plan_result_swallow(w) ==
    /\ pc[w] = "wa_plan_wait"
    /\ \/ /\ ResultReturned(w)
          /\ Goto(w, "wa_app_begin")
       \/ \E e \in ErrTexts :
            /\ ResultRaised(w, e)
            /\ Goto(w, "wa_app_begin")
    /\ UNCHANGED << locals, availability, groups, taken >>

\* lines 161-163: poller.result() of the plan
create_web_app_plan_result(w) ==
    /\ pc[w] = "wa_plan_wait"
    /\ \/ /\ ResultReturned(w)
          /\ Goto(w, "wa_app_begin")
       \/ \E e \in ErrTexts :
            /\ ResultRaised(w, e)
            /\ Return(w, FailMark \o PyStr(" Failed to create App Service Plan: ") \o e)
    /\ UNCHANGED << locals, availability, groups, taken >>

\* lines 166-175 and 178-179: web_apps.begin_create_or_update
create_web_app_site_begin(w) ==
    /\ pc[w] = "wa_app_begin"
    /\ \/ BeginAccepted(w, OpSite, name[w] \o PyStr("-web"), "wa_app_wait")
       \/ \E e \in ErrTexts :
            /\ LogFailed(w, OpSite, name[w] \o PyStr("-web"), e)
            /\ Return(w, FailMark \o PyStr(" Failed to create Web App: ") \o e)
            /\ UNCHANGED lro
    /\ UNCHANGED << locals, availability, groups, taken >>

\* lines 176-179: poller.result() of the web app
create_web_app_site_result(w) ==
    /\ pc[w] = "wa_app_wait"
    /\ \/ /\ ResultReturned(w)
          /\ Return(w, OkMark \o PyStr(" Web App '") \o name[w] \o PyStr("-web")
                        \o PyStr("' successfully created in '") \o location[w] \o PyStr("'."))
       \/ \E e \in ErrTexts :
            /\ ResultRaised(w, e)
            /\ Return(w, FailMark \o PyStr(" Failed to create Web App: ") \o e)
    /\ UNCHANGED << locals, availability, groups, taken >>

(***************************************************************************)
(* create_function_app, lines 182-252                                      *)
(***************************************************************************)
\* line 195: the condition under which the storage account is created, on
\* availability.name_available
StorageCreateNeeded(name_available) == ~name_available

\* lines 193-195 and 207-208: the availability check
create_function_app_check(w) ==
    /\ pc[w] = "fa_check"
    /\ \/ /\ Log(w, OpCheck, name[w], "Succeeded")
          /\ availability' = [availability EXCEPT ![w] = PyBool(NameAvailable(name[w]))]
          /\ IF StorageCreateNeeded(NameAvailable(name[w]))
             THEN Goto(w, "fa_sa_begin")
             ELSE Goto(w, "fa_plan_begin")
       \/ \E e \in ErrTexts :
            /\ LogFailed(w, OpCheck, name[w], e)
            /\ Return(w, FailMark \o PyStr(" Failed to create storage: ") \o e)
            /\ UNCHANGED availability
    /\ UNCHANGED << locals, lro, groups, taken >>

\* lines 196-205 and 207-208: storage_accounts.begin_create
create_function_app_storage_begin(w) ==
    /\ pc[w] = "fa_sa_begin"
    /\ \/ BeginAccepted(w, OpStorage, name[w], "fa_sa_wait")
       \/ \E e \in ErrTexts :
            /\ LogFailed(w, OpStorage, name[w], e)
            /\ Return(w, FailMark \o PyStr(" Failed to create storage: ") \o e)
            /\ UNCHANGED lro
    /\ UNCHANGED << locals, availability, groups, taken >>

\* lines 206-208: poller.result() of the storage account
create_function_app_storage_result(w) ==
    /\ pc[w] = "fa_sa_wait"
    /\ \/ /\ ResultReturned(w)
          /\ taken' = taken \cup {name[w]}
          /\ Goto(w, "fa_plan_begin")
          /\ UNCHANGED groups
       \/ \E e \in ErrTexts :
            /\ ResultRaised(w, e)
            /\ Return(w, FailMark \o PyStr(" Failed to create storage: ") \o e)
            /\ UNCHANGED << groups, taken >>
    /\ UNCHANGED << locals, availability >>

\* lines 211-225 and 227-228: app_service_plans.begin_create_or_update
create_function_app_plan_begin(w) ==
    /\ pc[w] = "fa_plan_begin"
    /\ \/ BeginAccepted(w, OpPlan, name[w] \o PyStr("-plan"), "fa_plan_wait")
       \/ \E e \in ErrTexts :
            /\ LogFailed(w, OpPlan, name[w] \o PyStr("-plan"), e)
            /\ Return(w, FailMark \o PyStr(" Failed to create app service plan: ") \o e)
            /\ UNCHANGED lro
    /\ UNCHANGED << locals, availability, groups, taken >>

\* lines 226-228: poller.result() of the plan
create_function_app_plan_result(w) ==
    /\ pc[w] = "fa_plan_wait"
    /\ \/ /\ ResultReturned(w)
          /\ Goto(w, "fa_app_begin")
       \/ \E e \in ErrTexts :
            /\ ResultRaised(w, e)
            /\ Return(w, FailMark \o PyStr(" Failed to create app service plan: ") \o e)
    /\ UNCHANGED << locals, availability, groups, taken >>

\* lines 231-248 and 251-252: web_apps.begin_create_or_update
create_function_app_site_begin(w) ==
    /\ pc[w] = "fa_app_begin"
    /\ \/ BeginAccepted(w, OpSite, name[w] \o PyStr("-func"), "fa_app_wait")
       \/ \E e \in ErrTexts :
            /\ LogFailed(w, OpSite, name[w] \o PyStr("-func"), e)
            /\ Return(w, FailMark \o PyStr(" Failed to create Function App: ") \o e)
            /\ UNCHANGED lro
    /\ UNCHANGED << locals, availability, groups, taken >>

\* lines 249-252: poller.result() of the function app
create_function_app_site_result(w) ==
    /\ pc[w] = "fa_app_wait"
    /\ \/ /\ ResultReturned(w)
          /\ Return(w, OkMark \o PyStr(" Function App '") \o name[w] \o PyStr("-func")
                        \o PyStr("' successfully created in '") \o location[w] \o PyStr("'."))
       \/ \E e \in ErrTexts :
            /\ ResultRaised(w, e)
            /\ Return(w, FailMark \o PyStr(" Failed to create Function App: ") \o e)
    /\ UNCHANGED << locals, availability, groups, taken >>

(***************************************************************************)
(* Specification                                                           *)
(***************************************************************************)
Step(w) ==
    \/ index_get(w)
    \/ index_post(w)
    \/ index_render(w)
    \/ create_resource_group(w)
    \/ create_storage_account_check(w)
    \/ create_storage_account_group(w)
    \/ create_storage_account_begin(w)
    \/ create_storage_account_result(w)
    \/ create_logic_app_group(w)
    \/ create_logic_app_begin(w)
    \/ create_logic_app_result(w)
    \/ create_web_app_group(w)
    \/ create_web_app_plan_begin(w)
    \/ create_web_app_plan_result(w)
    \/ create_web_app_site_begin(w)
    \/ create_web_app_site_result(w)
    \/ create_function_app_check(w)
    \/ create_function_app_storage_begin(w)
    \/ create_function_app_storage_result(w)
    \/ create_function_app_plan_begin(w)
    \/ create_function_app_plan_result(w)
    \/ create_function_app_site_begin(w)
    \/ create_function_app_site_result(w)

Next == \E w \in Workflows : Step(w)

Spec == Init /\ [][Next]_vars

\* two requests handled at once: their steps interleave in every order, the
\* sequential orders included
ConcurrentSpec == ConcurrentInit /\ [][Next]_vars

\* every request is handled on its own thread, which is scheduled as long as
\* it can take a step; nothing is assumed of the remote side
FairSpec == Spec /\ \A w \in Workflows : WF_vars(Step(w))

TypeOK ==
    /\ pc \in [Workflows -> STRING]
    /\ lro \in [Workflows -> {"none", "Succeeded", "Failed", "Never"}]
    /\ taken \subseteq StorageNames \cup { IndexParse[text].name : text \in ReplyTexts }

(***************************************************************************)
(* Vocabulary of the properties                                            *)
(***************************************************************************)
\* the result message carries the success / the failure prefix
IsSuccess(msg) == Len(msg) >= Len(OkMark) /\ SubSeq(msg, 1, Len(OkMark)) = OkMark
IsFailure(msg) == Len(msg) >= Len(FailMark) /\ SubSeq(msg, 1, Len(FailMark)) = FailMark

\* the provisioner of w has returned or raised: index() holds the result
Returned(w) == pc[w] \in {"render", "done"}

\* w issued remote operation op
Issued(w, op) == \E i \in DOMAIN calls[w] : calls[w][i].op = op

\* the operations of the mutating calls of w, in the order they were issued
RECURSIVE MutatingOps(_)
MutatingOps(log) ==
    IF log = << >> THEN << >>
    ELSE IF Head(log).op \in Mutating
         THEN << Head(log).op >> \o MutatingOps(Tail(log))
         ELSE MutatingOps(Tail(log))

\* the extractor reply of w was parsed into the three fields
Extracted(w) ==
    /\ method[w] = "POST"
    /\ ~reply[w].raises
    /\ IndexParse[reply[w].text].ok

\* the intent of w has a non-empty name and a non-empty location
ValidIntent(w) == name[w] # << >> /\ location[w] # << >>

\* the dependency chain of each resource kind (spec section 4.3)
Chain(prov) ==
    CASE prov = "create_resource_group" -> << OpGroup >>
      [] prov = "create_storage_account" -> << OpGroup, OpStorage >>
      [] prov = "create_web_app" -> << OpGroup, OpPlan, OpSite >>
      [] prov = "create_function_app" -> << OpStorage, OpPlan, OpSite >>
      [] prov = "create_logic_app" -> << OpGroup, OpDeploy >>
      [] OTHER -> << >>

\* the phrases index() recognizes in a lower-cased resource type
RecognizedPhrases ==
    { PyStr("resource group"), PyStr("storage account"), PyStr("function app"),
      PyStr("web app"), PyStr("logic app") }

(***************************************************************************)
(* Properties                                                              *)
(***************************************************************************)
\* C1: in a create_function_app workflow (of a valid intent) whose
\* availability check reported the name unavailable, no hosting-plan and no
\* function-app submission is issued and the workflow returns a failure
\* result.
C1_UnavailableShortCircuits ==
    \A w \in Workflows :
        ( /\ provisioner[w] = "create_function_app"
          /\ ValidIntent(w)
          /\ availability[w] = "False" ) =>
            /\ ~Issued(w, OpPlan)
            /\ ~Issued(w, OpSite)
            /\ Returned(w) => IsFailure(result[w])

\* C2: a create_function_app workflow (of a valid intent) whose name was
\* available and whose remote calls all succeeded issued exactly the three mutating submissions
\* storage, plan, function app, in that order, and returned a success
\* message that mentions '<name>-func'.
C2_ThreeSubmissionsInOrder ==
    \A w \in Workflows :
        ( /\ provisioner[w] = "create_function_app"
          /\ ValidIntent(w)
          /\ availability[w] = "True"
          /\ Returned(w)
          /\ \A i \in DOMAIN calls[w] : calls[w][i].state = "Succeeded" ) =>
            /\ MutatingOps(calls[w]) = << OpStorage, OpPlan, OpSite >>
            /\ IsSuccess(result[w])
            /\ Contains(result[w], name[w] \o PyStr("-func"))

\* C3: a create_storage_account workflow whose availability check reported
\* the name unavailable has returned a failure message saying that the name
\* is not available, as a value (index() caught nothing), and has issued no
\* mutating remote call.
C3_StorageUnavailableFailsFast ==
    \A w \in Workflows :
        (provisioner[w] = "create_storage_account" /\ availability[w] = "False") =>
            /\ Returned(w)
            /\ IsFailure(result[w])
            /\ Contains(result[w], PyStr("is not available"))
            /\ caught[w] = "none"
            /\ MutatingOps(calls[w]) = << >>

\* a storage-account request that found its name taken has been answered
C3_Witness ==
    \E w \in Workflows :
        /\ provisioner[w] = "create_storage_account"
        /\ availability[w] = "False"
        /\ name[w] # << >>
        /\ pc[w] = "done"

\* C4: a request whose extracted name or location is empty or whitespace-only
\* issues no remote call and ends in a failure result.
C4_EmptyFieldNoRemoteCall ==
    \A w \in Workflows :
        ( /\ Extracted(w)
          /\ \/ IndexParse[reply[w].text].name = << >>
             \/ IndexParse[reply[w].text].location = << >> ) =>
            /\ calls[w] = << >>
            /\ Returned(w) => IsFailure(result[w])

\* C5: in a workflow of a valid intent, every call of a step of the
\* dependency chain is issued after the preceding step of the chain has
\* Succeeded in the same workflow.
C5_StepAfterPredecessorSucceeded ==
    \A w \in Workflows :
        LET chain == Chain(provisioner[w]) IN
        \A k \in 2..Len(chain) :
            ValidIntent(w) =>
            \A i \in DOMAIN calls[w] :
                calls[w][i].op = chain[k] =>
                    \E j \in 1..(i - 1) :
                        /\ calls[w][j].op = chain[k - 1]
                        /\ calls[w][j].state = "Succeeded"

\* C6: once a remote call of a workflow has failed (the call raised, or its
\* operation ended in a failure state), it is the last call the workflow
\* issues, the provisioner has returned or raised, and the result is a
\* failure.
C6_NoCallAfterFailure ==
    \A w \in Workflows :
        \A i \in DOMAIN calls[w] :
            calls[w][i].state = "Failed" =>
                /\ i = Len(calls[w])
                /\ Returned(w)
                /\ IsFailure(result[w])

\* a web-app request whose hosting plan failed has been answered
C6_Witness ==
    \E w \in Workflows :
        /\ provisioner[w] = "create_web_app"
        /\ pc[w] = "done"
        /\ \E i \in DOMAIN calls[w] :
              calls[w][i].op = OpPlan /\ calls[w][i].state = "Failed"

\* C7: a workflow (of a valid intent) returns a success result only if every
\* step of its kind's dependency chain was submitted and Succeeded.
C7_SuccessMeansChainSucceeded ==
    \A w \in Workflows :
        ( /\ provisioner[w] # "none"
          /\ ValidIntent(w)
          /\ Returned(w)
          /\ IsSuccess(result[w]) ) =>
            LET chain == Chain(provisioner[w]) IN
            \A k \in DOMAIN chain :
                \E i \in DOMAIN calls[w] :
                    calls[w][i].op = chain[k] /\ calls[w][i].state = "Succeeded"

\* C8: in a workflow of a valid intent, a wait on an operation that never
\* reaches a terminal state ends: the request is answered, with a failure
\* result.
C8_WaitEndsInTimeout ==
    \A w \in Workflows :
        (lro[w] = "Never" /\ ValidIntent(w)) ~> (pc[w] = "done" /\ IsFailure(result[w]))

\* C9: when the extracted resource type contains none of the recognized
\* phrases, no provisioner is called, no remote call is made and the result
\* is a failure.
C9_UnknownTypeNoRemoteCall ==
    \A w \in Workflows :
        ( /\ Extracted(w)
          /\ pc[w] # "request"
          /\ \A p \in RecognizedPhrases :
                ~Contains(IndexParse[reply[w].text].resource_type, p) ) =>
            /\ provisioner[w] = "none"
            /\ calls[w] = << >>
            /\ Returned(w)
            /\ IsFailure(result[w])

\* a request for an unrecognized resource type has been answered
C9_Witness ==
    \E w \in Workflows :
        /\ Extracted(w)
        /\ pc[w] = "done"
        /\ resource_type[w] = PyStr("virtual machine")
        /\ ValidIntent(w)

\* C10: no exception raised by a remote call escapes a provisioner: index()
\* catches only what the extractor or the parsing raised.
C10_NoFaultEscapesProvisioner ==
    \A w \in Workflows : caught[w] \in {"none", "extractor", "parse"}

\* the three labels of the extractor's output format
Labels == { PyStr("resource_type:"), PyStr("name:"), PyStr("location:") }

\* the reply texts in which one of the labels does not occur, in any casing
LacksLabel == { text \in ReplyTexts : \E l \in Labels : ~Contains(Lower(text), l) }

\* C11: a submitted command (POST) that has been answered carries exactly
\* one result message, prefixed as a success or as a failure; a result, once
\* assigned, never changes, and the provisioner index() has called is never
\* replaced by another one.
C11_OneResultPerCommand ==
    /\ [](\A w \in Workflows :
            (method[w] = "POST" /\ Returned(w)) =>
                (IsSuccess(result[w]) /\ ~IsFailure(result[w]))
                    \/ (IsFailure(result[w]) /\ ~IsSuccess(result[w])))
    /\ [][\A w \in Workflows :
            /\ (method[w] = "POST" /\ result[w] # << >>) => result'[w] = result[w]
            /\ provisioner[w] # "none" => provisioner'[w] = provisioner[w]]_vars

\* a command whose provisioner raised on a remote failure has been answered
\* with a failure message
C11_Witness ==
    \E w \in Workflows :
        /\ method[w] = "POST"
        /\ pc[w] = "done"
        /\ caught[w] = "create_storage_account"
        /\ IsFailure(result[w])

\* C12: when the extractor's reply lacks one of the three labels, the
\* request is answered with a failure result (index() catches the
\* IndexError), no provisioner is called and no remote call is made.
C12_MissingLabelFails ==
    \A w \in Workflows :
        ( /\ method[w] = "POST"
          /\ ~reply[w].raises
          /\ reply[w].text \in LacksLabel
          /\ pc[w] # "request" ) =>
            /\ Returned(w)
            /\ IsFailure(result[w])
            /\ caught[w] = "parse"
            /\ provisioner[w] = "none"
            /\ calls[w] = << >>

\* a reply with a resource type but no name label has been answered
C12_Witness ==
    \E w \in Workflows :
        /\ method[w] = "POST"
        /\ ~reply[w].raises
        /\ reply[w].text = PyStr("resource_type: web app")
        /\ pc[w] = "done"

\* no remote call of w has failed
RemoteSucceeds(w) == \A i \in DOMAIN calls[w] : calls[w][i].state # "Failed"

\* C13: when two requests provision the resource group of the same name in
\* the same location and no create-or-update fails, both are answered with a
\* success message that mentions the name and the location, and index()
\* catches no exception in either.
C13_ResourceGroupTwice ==
    \A v, w \in Workflows :
        ( /\ v # w
          /\ provisioner[v] = "create_resource_group"
          /\ provisioner[w] = "create_resource_group"
          /\ name[v] = name[w] /\ location[v] = location[w]
          /\ Returned(v) /\ Returned(w)
          /\ RemoteSucceeds(v) /\ RemoteSucceeds(w) ) =>
            /\ IsSuccess(result[w])
            /\ Contains(result[w], name[w])
            /\ Contains(result[w], location[w])
            /\ caught[w] = "none"

\* the same resource group has been provisioned twice
C13_Witness ==
    /\ \A w \in Workflows :
          /\ provisioner[w] = "create_resource_group"
          /\ pc[w] = "done"
          /\ Len(calls[w]) = 1
          /\ calls[w][1].state = "Succeeded"
    /\ name[1] = PyStr("a1") /\ name[2] = PyStr("a1")
    /\ PyStr("a1") \in groups

\* the resource name request w asks for ("" for a GET)
InputName(w) ==
    IF method[w] = "POST" /\ ~reply[w].raises /\ IndexParse[reply[w].text].ok
    THEN IndexParse[reply[w].text].name
    ELSE << >>

\* the requests ask for pairwise different resource names
DisjointNames == \A v, w \in Workflows : v # w => InputName(v) # InputName(w)

\* all that request w can observe: its own locals, result and call log, and
\* the remote state of the name it asks for
View(w) ==
    << pc[w], resource_type[w], name[w], location[w], provisioner[w], result[w],
       caught[w], availability[w], calls[w], lro[w],
       InputName(w) \in taken, InputName(w) \in groups >>

\* C14: requests on disjoint names do not interfere.  A step of one request
\* leaves all that the other can observe unchanged, and the availability a
\* request was told is the one it would be told alone: a name reported
\* unavailable is taken, and a name reported available is taken only once
\* the request itself has created the account.
C14_DisjointWorkflowsIndependent ==
    /\ [](DisjointNames =>
            \A w \in Workflows :
                /\ availability[w] = "False" => name[w] \in taken
                /\ (availability[w] = "True" /\ name[w] \in taken) =>
                      \E i \in DOMAIN calls[w] :
                          calls[w][i].op = OpStorage /\ calls[w][i].state = "Succeeded")
    /\ [][DisjointNames =>
            \A w \in Workflows : (pc'[w] = pc[w]) => (View(w)' = View(w))]_vars

\* two requests on different names have both run their provisioners
C14_Witness ==
    /\ DisjointNames
    /\ \A w \in Workflows : pc[w] = "done" /\ Len(calls[w]) >= 2
    /\ provisioner[1] = "create_storage_account" /\ IsSuccess(result[1])
    /\ provisioner[2] = "create_function_app"

\* C15: whenever a hosting-plan submission is issued in a workflow (of a
\* valid intent), a create-or-update of the resource group it targets has
\* succeeded earlier in the same workflow.
C15_PlanAfterGroupCreated ==
    \A w \in Workflows :
        ValidIntent(w) =>
            \A i \in DOMAIN calls[w] :
                calls[w][i].op = OpPlan =>
                    \E j \in 1..(i - 1) :
                        /\ calls[w][j].op = OpGroup
                        /\ calls[w][j].target = name[w]
                        /\ calls[w][j].state = "Succeeded"

\* C16: within one workflow no mutating operation is submitted twice for the
\* same target, whatever became of the first submission.
C16_AtMostOneSubmission ==
    \A w \in Workflows :
        \A i, j \in DOMAIN calls[w] :
            ( /\ i < j
              /\ calls[w][i].op \in Mutating
              /\ calls[w][i].op = calls[w][j].op ) =>
                calls[w][i].target # calls[w][j].target

\* a request has been answered after one of its submissions was refused or
\* its operation ended in a failure state
C16_Witness ==
    \E w \in Workflows :
        /\ pc[w] = "done"
        /\ ValidIntent(w)
        /\ Len(calls[w]) >= 2
        /\ calls[w][Len(calls[w])].op \in LongRunning
        /\ calls[w][Len(calls[w])].state = "Failed"

\* the recognized phrases in the order the claim gives, each with the
\* provisioner of its resource kind
PhraseOrder ==
    << [phrase |-> PyStr("resource group"), provisioner |-> "create_resource_group"],
       [phrase |-> PyStr("storage account"), provisioner |-> "create_storage_account"],
       [phrase |-> PyStr("function app"), provisioner |-> "create_function_app"],
       [phrase |-> PyStr("web app"), provisioner |-> "create_web_app"],
       [phrase |-> PyStr("logic app"), provisioner |-> "create_logic_app"] >>

\* the provisioner of the first phrase, from position i of PhraseOrder on,
\* that occurs in rt; "none" if no phrase does
RECURSIVE FirstPhraseFrom(_, _)
FirstPhraseFrom(rt, i) ==
    IF i > Len(PhraseOrder) THEN "none"
    ELSE IF Contains(rt, PhraseOrder[i].phrase) THEN PhraseOrder[i].provisioner
    ELSE FirstPhraseFrom(rt, i + 1)

\* C17: for every resource type ty the extractor writes, the provisioner
\* index() calls is the one of the first phrase of the fixed order that
\* occurs in the lower-cased, trimmed ty, and none if no phrase occurs;
\* casing and surrounding whitespace of ty make no difference.
C17_FirstPhraseDecides ==
    \A w \in Workflows :
        (method[w] = "POST" /\ ~reply[w].raises /\ pc[w] # "request") =>
            \A ty \in TypeInputs, nm \in NameInputs, loc \in LocationInputs :
                reply[w].text = PyStr("resource_type: ") \o ty \o PyStr("\nname: ") \o nm
                                    \o PyStr("\nlocation: ") \o loc =>
                    provisioner[w] = FirstPhraseFrom(Lower(Strip(ty)), 1)

\* a resource type with two recognized phrases in the reverse of the fixed
\* order, in mixed casing with non-ASCII capitals and surrounding
\* whitespace, has been dispatched
C17_Witness ==
    \E w \in Workflows :
        /\ pc[w] = "done"
        /\ reply[w].text = PyStr("resource_type: ") \o << 32, 201, 931 >>
                            \o PyStr(" Web App or FUNCTION App\t\nname: a1\nlocation: westus")
        /\ resource_type[w] = << 233, 962 >> \o PyStr(" web app or function app")
        /\ provisioner[w] = "create_function_app"
        /\ calls[w] # << >>

\* the operations of the calls in log, in the order they were issued
Ops(log) == [ i \in DOMAIN log |-> log[i].op ]

\* s is an initial part of t
IsPrefix(s, t) == Len(s) <= Len(t) /\ s = SubSeq(t, 1, Len(s))

\* C18: a create_storage_account workflow issues the availability check,
\* the resource-group create-or-update and the storage begin_create in this
\* order, each only after the one before has returned; the resource group is
\* created only after the check reported the name available; the wait
\* follows the accepted submission and success is returned only once the
\* operation Succeeded.
C18_StorageStepOrder ==
    \A w \in Workflows :
        provisioner[w] = "create_storage_account" =>
            /\ IsPrefix(Ops(calls[w]), << OpCheck, OpGroup, OpStorage >>)
            /\ \A i \in 1..(Len(calls[w]) - 1) : calls[w][i].state = "Succeeded"
            /\ Len(calls[w]) >= 2 => availability[w] = "True"
            /\ pc[w] = "sa_wait" =>
                  Len(calls[w]) = 3 /\ calls[w][3].state = "Submitted"
            /\ IsSuccess(result[w]) =>
                  Len(calls[w]) = 3 /\ calls[w][3].state = "Succeeded"

\* a storage account of an available name has been created
C18_Witness ==
    \E w \in Workflows :
        /\ provisioner[w] = "create_storage_account"
        /\ pc[w] = "done"
        /\ availability[w] = "True"
        /\ IsSuccess(result[w])
        /\ Ops(calls[w]) = << OpCheck, OpGroup, OpStorage >>

\* C19: in a create_logic_app workflow the deployment is submitted at most
\* once and only after the resource-group create-or-update succeeded; when
\* the submission or the wait raised, the workflow returns a failure message
\* that contains the text of the exception; when the deployment Succeeded it
\* returns a success message.
C19_LogicAppDeployment ==
    \A w \in Workflows :
        provisioner[w] = "create_logic_app" =>
            /\ IsPrefix(Ops(calls[w]), << OpGroup, OpDeploy >>)
            /\ Len(calls[w]) = 2 => calls[w][1].state = "Succeeded"
            /\ (Returned(w) /\ Len(calls[w]) = 2) =>
                  /\ calls[w][2].state \in {"Succeeded", "Failed"}
                  /\ caught[w] = "none"
                  /\ calls[w][2].state = "Failed" =>
                        /\ IsFailure(result[w])
                        /\ calls[w][2].error \in ErrTexts
                        /\ Contains(result[w], calls[w][2].error)
                  /\ calls[w][2].state = "Succeeded" => IsSuccess(result[w])

\* a logic-app request whose deployment failed has been answered
C19_Witness ==
    \E w \in Workflows :
        /\ provisioner[w] = "create_logic_app"
        /\ pc[w] = "done"
        /\ Len(calls[w]) = 2
        /\ calls[w][2].op = OpDeploy
        /\ calls[w][2].state = "Failed"
        /\ calls[w][2].error = PyStr("Conflict")

====
